---- MODULE Spec2Model ----
(***************************************************************************)
(* A model of metaseq/modules/multihead_attention.py: MultiheadAttention's *)
(* forward() on its own computation path, the incremental key/value cache, *)
(* the padding-mask concatenation, reorder_incremental_state() and         *)
(* upgrade_state_dict_named().                                             *)
(*                                                                         *)
(* Tensors are modelled by their shape and by the identity of their        *)
(* entries, not by floating-point values:                                  *)
(*  - an input tensor (len, bsz, embed_dim) is a sequence over positions   *)
(*    of sequences over the batch of tokens;                               *)
(*  - a projected, head-split tensor (bsz*num_heads, len, head_dim) is a   *)
(*    sequence of rows, row (b-1)*num_heads+h being the sequence over      *)
(*    positions of cells <<projection, token, h>>;                         *)
(*  - a padding mask (batch, len) is a record of its dtype and its rows of *)
(*    0/1 entries (1 marks a padded position);                             *)
(*  - Python's None is the empty tuple; a tensor always has a row.         *)
(***************************************************************************)
EXTENDS Integers, Sequences, FiniteSets, TLC

VARIABLES
    cfg,      \* the module's configuration, fixed at construction
    store,    \* handle -> incremental_state dict of that decoding session
    solo,     \* handle -> the heap of the run in which that session runs alone
    calls,    \* handle -> numbers of forward() and reorder calls of the session
    last,     \* what the last operation was given and what it did
    fin,      \* the inputs of a run of a single function or of the two runs compared
    fout      \* its results

vars == <<cfg, store, solo, calls, last, fin, fout>>

\* ---------------------------------------------------------------- bounds
MaxB == 2        \* batch sizes 1..MaxB
MaxLen == 2      \* key / query / mask lengths 1..MaxLen
MaxSteps == 3    \* forward() calls per session
MaxReorders == 1 \* reorder_incremental_state() calls per session
MaxKeys == 3     \* entries of a persisted state dict
num_heads == 2   \* self.num_heads of the module
MaxEmbed == 2    \* embed_dim of a persisted projection, its combined weight having 3*embed_dim rows

None == << >>

Max(a, b) == IF a >= b THEN a ELSE b

RECURSIVE Pow2(_)
Pow2(n) == IF n = 0 THEN 1 ELSE 2 * Pow2(n - 1)

\* ------------------------------------------------------------------ masks
\* bit j (1-based, from the left) of p written with len binary digits
Bit(p, len, j) == (p \div Pow2(len - j)) % 2

\* a (batch, len) mask whose first row is the pattern p and whose row b is the
\* pattern p+b-1, so that rows differ and a row mix-up shows
MaskOf(dtype, batch, len, p) ==
    [dtype |-> dtype,
     rows  |-> [b \in 1..batch |->
                  [j \in 1..len |-> Bit((p + b - 1) % Pow2(len), len, j)]]]

Size0(m) == Len(m.rows)
Size1(m) == Len(m.rows[1])

\* tensor.float(): entries keep their value, True becoming 1.0
Float(m) == [dtype |-> "float", rows |-> m.rows]

\* torch.zeros((batch, n)) as dtype
Zeros(dtype, batch, n) ==
    [dtype |-> dtype, rows |-> [b \in 1..batch |-> [j \in 1..n |-> 0]]]

\* torch.cat([a, b], dim=1) is defined when the leading sizes agree
CanCat1(a, b) == Size0(a) = Size0(b)
Cat1(a, b) ==
    [dtype |-> a.dtype, rows |-> [i \in 1..Size0(a) |-> a.rows[i] \o b.rows[i]]]

\* Lines 498-528: the branches taken when static_kv does not settle the result.
\* ok is FALSE when torch.cat along the source axis meets two different batch
\* sizes and raises.
AppendNonStatic(key_padding_mask, prev_key_padding_mask, batch_size, src_len) ==
    IF prev_key_padding_mask # None /\ key_padding_mask # None
    THEN IF CanCat1(prev_key_padding_mask, key_padding_mask)
         THEN [ok |-> TRUE, val |-> Cat1(Float(prev_key_padding_mask), Float(key_padding_mask))]
         ELSE [ok |-> FALSE, val |-> None]
    ELSE IF prev_key_padding_mask # None
    THEN IF src_len > Size1(prev_key_padding_mask)
         THEN IF batch_size = Size0(prev_key_padding_mask)
              THEN [ok |-> TRUE,
                    val |-> Cat1(Float(prev_key_padding_mask),
                                 Zeros("float", batch_size, src_len - Size1(prev_key_padding_mask)))]
              ELSE [ok |-> FALSE, val |-> None]
         ELSE [ok |-> TRUE, val |-> Float(prev_key_padding_mask)]
    ELSE IF key_padding_mask # None
    THEN IF src_len > Size1(key_padding_mask)
         THEN IF batch_size = Size0(key_padding_mask)
              THEN [ok |-> TRUE,
                    val |-> Cat1(Zeros("float", batch_size, src_len - Size1(key_padding_mask)),
                                 Float(key_padding_mask))]
              ELSE [ok |-> FALSE, val |-> None]
         ELSE [ok |-> TRUE, val |-> Float(key_padding_mask)]
    ELSE [ok |-> TRUE, val |-> prev_key_padding_mask]

\* Mutant: the static_kv branch is missing, a previous mask no longer wins.
AppendIgnoringStatic(key_padding_mask, prev_key_padding_mask, batch_size, src_len, static_kv) ==
    AppendNonStatic(key_padding_mask, prev_key_padding_mask, batch_size, src_len)

\* Mutant: a lone new mask is padded on the right, like a lone previous mask.
AppendFillerOnRight(key_padding_mask, prev_key_padding_mask, batch_size, src_len, static_kv) ==
    IF prev_key_padding_mask # None /\ static_kv
    THEN [ok |-> TRUE, val |-> prev_key_padding_mask]
    ELSE IF prev_key_padding_mask = None /\ key_padding_mask # None
            /\ src_len > Size1(key_padding_mask) /\ batch_size = Size0(key_padding_mask)
    THEN [ok |-> TRUE,
          val |-> Cat1(Float(key_padding_mask),
                       Zeros("float", batch_size, src_len - Size1(key_padding_mask)))]
    ELSE AppendNonStatic(key_padding_mask, prev_key_padding_mask, batch_size, src_len)

\* MultiheadAttention._append_prev_key_padding_mask
append_prev_key_padding_mask(key_padding_mask, prev_key_padding_mask, batch_size, src_len, static_kv) ==
    IF prev_key_padding_mask # None /\ static_kv
    THEN [ok |-> TRUE, val |-> prev_key_padding_mask]
    ELSE AppendNonStatic(key_padding_mask, prev_key_padding_mask, batch_size, src_len)

\* ------------------------------------------------- the mask policy alone
\* Every argument combination of _append_prev_key_padding_mask within the
\* bounds: a new mask (bool) or none, a previous mask (float, as the cache
\* holds it) or none, batch_size, src_len, static_kv.
MaskArgs ==
    { [key_padding_mask      |-> IF hk THEN MaskOf("bool", kb, kl, kp) ELSE None,
       prev_key_padding_mask |-> IF hp THEN MaskOf("float", pb, pl, pp) ELSE None,
       batch_size |-> bs, src_len |-> sl, static_kv |-> st] :
        hk \in BOOLEAN, kb \in 1..MaxB, kl \in 1..MaxLen, kp \in 0..(Pow2(MaxLen) - 1),
        hp \in BOOLEAN, pb \in 1..MaxB, pl \in 1..MaxLen, pp \in 0..(Pow2(MaxLen) - 1),
        bs \in 1..MaxB, sl \in 1..(2 * MaxLen), st \in BOOLEAN }

Idle == [op |-> "none"]

InitMask ==
    /\ fin \in MaskArgs
    /\ fout = [done |-> FALSE]
    /\ cfg = None /\ store = None /\ solo = None /\ calls = None /\ last = Idle

CallAppend ==
    /\ fout.done = FALSE
    /\ fout' = [done |-> TRUE,
                res  |-> append_prev_key_padding_mask(
                            fin.key_padding_mask, fin.prev_key_padding_mask,
                            fin.batch_size, fin.src_len, fin.static_kv)]
    /\ UNCHANGED <<cfg, store, solo, calls, last, fin>>

NextMask == CallAppend

SpecMask == InitMask /\ [][NextMask]_vars

\* --------------------------------------------------------------- C3, C4
\* the branch of the policy the arguments select
Branch(a) ==
    IF a.prev_key_padding_mask # None /\ a.static_kv THEN 1
    ELSE IF a.prev_key_padding_mask # None /\ a.key_padding_mask # None THEN 2
    ELSE IF a.prev_key_padding_mask # None THEN 3
    ELSE IF a.key_padding_mask # None THEN 4
    ELSE 5

Returned == fout.done /\ fout.res.ok
ReturnedMask == Returned /\ fout.res.val # None

\* the lengths of the masks given fit src_len: the previous mask already has
\* it (1), the two lengths add up to it (2), the lone mask is no longer (3, 4)
LenFits(a) ==
    CASE Branch(a) = 1 -> Size1(a.prev_key_padding_mask) = a.src_len
      [] Branch(a) = 2 -> Size1(a.prev_key_padding_mask) + Size1(a.key_padding_mask) = a.src_len
      [] Branch(a) = 3 -> Size1(a.prev_key_padding_mask) <= a.src_len
      [] Branch(a) = 4 -> Size1(a.key_padding_mask) <= a.src_len
      [] OTHER -> FALSE

\* C3 as stated: for every combination of arguments a non-none result of the
\* padding-mask concatenation has final-axis length src_len.
C3_LenAlwaysSrcLen == ReturnedMask => Size1(fout.res.val) = fin.src_len

\* C3 amended: a non-none result has final-axis length src_len exactly when
\* the given masks fit src_len (previous has length src_len under static_kv;
\* previous and new add up to src_len; a lone mask is no longer than src_len
\* and is padded up to it); a result is none in branch 5 only.
C3_LenIsSrcLenWhenFits ==
    /\ ReturnedMask => (LenFits(fin) <=> Size1(fout.res.val) = fin.src_len)
    /\ Returned => (fout.res.val = None <=> Branch(fin) = 5)

C3_Witness ==
    /\ ReturnedMask /\ Branch(fin) = 2
    /\ Size1(fin.prev_key_padding_mask) = 2 /\ Size1(fin.key_padding_mask) = 1
    /\ fin.src_len = 3 /\ Size1(fout.res.val) = 3

\* The policy as the specification words it, entry by entry.
PolicyWidth(a) ==
    CASE Branch(a) = 1 -> Size1(a.prev_key_padding_mask)
      [] Branch(a) = 2 -> Size1(a.prev_key_padding_mask) + Size1(a.key_padding_mask)
      [] Branch(a) = 3 -> Max(Size1(a.prev_key_padding_mask), a.src_len)
      [] Branch(a) = 4 -> Max(Size1(a.key_padding_mask), a.src_len)
      [] OTHER -> 0

PolicyEntry(a, b, j) ==
    LET prev == a.prev_key_padding_mask
        new  == a.key_padding_mask
    IN CASE Branch(a) = 1 -> prev.rows[b][j]
         [] Branch(a) = 2 -> IF j <= Size1(prev) THEN prev.rows[b][j]
                             ELSE new.rows[b][j - Size1(prev)]
         [] Branch(a) = 3 -> IF j <= Size1(prev) THEN prev.rows[b][j] ELSE 0
         [] Branch(a) = 4 -> LET pad == PolicyWidth(a) - Size1(new)
                             IN IF j <= pad THEN 0 ELSE new.rows[b][j - pad]
         [] OTHER -> 0

\* C4: whenever the padding-mask concatenation returns, its result is the
\* value of the five-branch policy: none in branch 5 only, and otherwise a
\* mask of the policy's batch size and width whose every entry is the entry
\* of the previous mask, of the new mask or a non-masked filler the policy
\* puts there (previous first, filler right of a lone previous, left of a
\* lone new mask).
C4_FiveBranchPolicy ==
    Returned =>
        /\ fout.res.val = None <=> Branch(fin) = 5
        /\ fout.res.val # None =>
            /\ Size0(fout.res.val) =
                 Size0(IF Branch(fin) = 4 THEN fin.key_padding_mask
                       ELSE fin.prev_key_padding_mask)
            /\ Size1(fout.res.val) = PolicyWidth(fin)
            /\ \A b \in 1..Size0(fout.res.val), j \in 1..PolicyWidth(fin) :
                 fout.res.val.rows[b][j] = PolicyEntry(fin, b, j)

C4_Witness ==
    /\ ReturnedMask /\ Branch(fin) = 4
    /\ fin.src_len > Size1(fin.key_padding_mask)
    /\ fin.key_padding_mask.rows[1][1] = 1
    /\ fout.res.val.rows[1][1] = 0
    /\ fout.res.val.rows[1][fin.src_len] = fin.key_padding_mask.rows[1][Size1(fin.key_padding_mask)]

\* ------------------------------------------- upgrade_state_dict_named
\* A parameter name is a string, modelled as the sequence of its pieces, so
\* that str.endswith is the suffix relation: "xattn.in_proj_weight" is
\* <<"x", "attn", ".", "in_proj_weight">>.
EndsWith(s, suffix) ==
    /\ Len(s) >= Len(suffix)
    /\ SubSeq(s, Len(s) - Len(suffix) + 1, Len(s)) = suffix

\* A state dict is an insertion-ordered sequence of entries with distinct keys.
DictKeys(d) == {d[i].key : i \in 1..Len(d)}
DictGet(d, k) == d[CHOOSE i \in 1..Len(d) : d[i].key = k].val
DictDel(d, k) == SelectSeq(d, LAMBDA e : e.key # k)
DictSet(d, k, v) ==
    IF k \in DictKeys(d)
    THEN [i \in 1..Len(d) |-> IF d[i].key = k THEN [key |-> k, val |-> v] ELSE d[i]]
    ELSE Append(d, [key |-> k, val |-> v])

\* for k in keys_to_remove: del state_dict[k]  (KeyError on a key already gone)
RECURSIVE DelAll(_, _)
DelAll(d, ks) ==
    IF ks = << >> THEN [raised |-> FALSE, state_dict |-> d]
    ELSE IF Head(ks) \notin DictKeys(d) THEN [raised |-> TRUE, state_dict |-> d]
    ELSE DelAll(DictDel(d, Head(ks)), Tail(ks))

\* for key, value in items_to_add.items(): state_dict[key] = value
RECURSIVE SetAll(_, _)
SetAll(d, items) ==
    IF items = << >> THEN d
    ELSE SetAll(DictSet(d, Head(items).key, Head(items).val), Tail(items))

\* t[:dim], t[dim:2*dim], t[2*dim:]; a slice ends where the tensor ends
SliceEnd(t, n) == IF n < Len(t) THEN n ELSE Len(t)
SliceQ(t, dim) == SubSeq(t, 1, SliceEnd(t, dim))
SliceK(t, dim) == SubSeq(t, SliceEnd(t, dim) + 1, SliceEnd(t, 2 * dim))
SliceV(t, dim) == SubSeq(t, SliceEnd(t, 2 * dim) + 1, Len(t))

\* the loop of lines 575-594 from entry i on: items_to_add and keys_to_remove
RECURSIVE UpgradeScan(_, _, _, _, _)
UpgradeScan(state_dict, prefix, i, items_to_add, keys_to_remove) ==
    IF i > Len(state_dict)
    THEN [items_to_add |-> items_to_add, keys_to_remove |-> keys_to_remove]
    ELSE LET k == state_dict[i].key
             dim == Len(state_dict[i].val) \div 3
             k_bias == prefix \o <<"in_proj_bias">>
             w == SetAll(items_to_add,
                    << [key |-> prefix \o <<"q_proj.weight">>, val |-> SliceQ(state_dict[i].val, dim)],
                       [key |-> prefix \o <<"k_proj.weight">>, val |-> SliceK(state_dict[i].val, dim)],
                       [key |-> prefix \o <<"v_proj.weight">>, val |-> SliceV(state_dict[i].val, dim)] >>)
             wb == SetAll(w,
                    << [key |-> prefix \o <<"q_proj.bias">>, val |-> SliceQ(DictGet(state_dict, k_bias), dim)],
                       [key |-> prefix \o <<"k_proj.bias">>, val |-> SliceK(DictGet(state_dict, k_bias), dim)],
                       [key |-> prefix \o <<"v_proj.bias">>, val |-> SliceV(DictGet(state_dict, k_bias), dim)] >>)
         IN IF EndsWith(k, prefix \o <<"in_proj_weight">>)
            THEN IF k_bias \in DictKeys(state_dict)
                 THEN UpgradeScan(state_dict, prefix, i + 1, wb,
                                  keys_to_remove \o <<k, k_bias>>)
                 ELSE UpgradeScan(state_dict, prefix, i + 1, w, Append(keys_to_remove, k))
            ELSE UpgradeScan(state_dict, prefix, i + 1, items_to_add, keys_to_remove)

\* Mutant: the combined keys are split but never removed.
UpgradeKeepingOldKeys(state_dict, name) ==
    LET prefix == IF name # << >> THEN name \o <<".">> ELSE << >>
        scan == UpgradeScan(state_dict, prefix, 1, << >>, << >>)
    IN [raised |-> FALSE, state_dict |-> SetAll(state_dict, scan.items_to_add)]

\* MultiheadAttention.upgrade_state_dict_named: the dict afterwards, and
\* whether a del raised KeyError (the dict then keeps the deletions made).
upgrade_state_dict_named(state_dict, name) ==
    LET prefix == IF name # << >> THEN name \o <<".">> ELSE << >>
        scan == UpgradeScan(state_dict, prefix, 1, << >>, << >>)
        removed == DelAll(state_dict, scan.keys_to_remove)
    IN IF removed.raised THEN removed
       ELSE [raised |-> FALSE, state_dict |-> SetAll(removed.state_dict, scan.items_to_add)]

\* The parameter names a persisted dict is drawn from: the combined weight
\* and bias of the module "attn", of the unnamed module and of a module whose
\* name ends in "attn", an already split entry and an unrelated one.
ParamNames ==
    << <<"attn", ".", "in_proj_weight">>,
       <<"attn", ".", "in_proj_bias">>,
       <<"x", "attn", ".", "in_proj_weight">>,
       <<"in_proj_weight">>,
       <<"in_proj_bias">>,
       <<"attn", ".", "q_proj.weight">>,
       <<"attn", ".", "out_proj.weight">> >>

\* the tensor stored under the c-th name: rows rows, each its own
ParamValue(c, rows) == [n \in 1..rows |-> <<c, n>>]

\* the persisted dicts: up to MaxKeys entries under distinct names, each
\* tensor with the 3 * embed_dim rows of the module it comes from, which
\* need not be the same module for every entry
StateDicts ==
    { [i \in 1..n |-> [key |-> ParamNames[f[i]], val |-> ParamValue(f[i], 3 * e[i])]] :
        <<n, f, e>> \in
          { x \in UNION { {n} \X [1..n -> 1..Len(ParamNames)] \X [1..n -> 1..MaxEmbed] :
                            n \in 0..MaxKeys } :
              \A i, j \in 1..x[1] : i # j => x[2][i] # x[2][j] } }
UpgradeArgs ==
    { [state_dict |-> d, name |-> nm] : d \in StateDicts, nm \in {<< >>, <<"attn">>} }

InitUpgrade ==
    /\ fin \in UpgradeArgs
    /\ fout = [done |-> FALSE]
    /\ cfg = None /\ store = None /\ solo = None /\ calls = None /\ last = Idle

CallUpgrade ==
    /\ fout.done = FALSE
    /\ fout' = [done |-> TRUE, res |-> upgrade_state_dict_named(fin.state_dict, fin.name)]
    /\ UNCHANGED <<cfg, store, solo, calls, last, fin>>

NextUpgrade == CallUpgrade

SpecUpgrade == InitUpgrade /\ [][NextUpgrade]_vars

\* ------------------------------------------------------------------- C9
Prefix == IF fin.name # << >> THEN fin.name \o <<".">> ELSE << >>
CombinedWeight == Prefix \o <<"in_proj_weight">>
CombinedBias == Prefix \o <<"in_proj_bias">>
SplitNames ==
    { Prefix \o <<n>> : n \in {"q_proj.weight", "k_proj.weight", "v_proj.weight",
                              "q_proj.bias", "k_proj.bias", "v_proj.bias"} }
InKeys == DictKeys(fin.state_dict)
OutKeys == DictKeys(fout.res.state_dict)

\* q, k, v under the module's prefix are the first, middle and last third of t
IsThirds(t, kind) ==
    LET q == Prefix \o <<"q_proj." \o kind>>
        k == Prefix \o <<"k_proj." \o kind>>
        v == Prefix \o <<"v_proj." \o kind>>
        n == Len(t) \div 3
        d == fout.res.state_dict
    IN /\ {q, k, v} \subseteq OutKeys
       /\ Len(DictGet(d, q)) = n /\ Len(DictGet(d, k)) = n /\ Len(DictGet(d, v)) = n
       /\ \A i \in 1..n : /\ DictGet(d, q)[i] = t[i]
                          /\ DictGet(d, k)[i] = t[n + i]
                          /\ DictGet(d, v)[i] = t[2 * n + i]

\* q, k, v under the module's prefix are t cut after its rows n and 2n: the
\* rows 1..n, n+1..2n and 2n+1.. of t, as far as t has them
IsCutAt(t, n, kind) ==
    LET d == fout.res.state_dict
        q == Prefix \o <<"q_proj." \o kind>>
        k == Prefix \o <<"k_proj." \o kind>>
        v == Prefix \o <<"v_proj." \o kind>>
        rows(from, to) == {i \in 1..Len(t) : from <= i /\ i <= to}
        holds(name, from, to) ==
            /\ Len(DictGet(d, name)) = Cardinality(rows(from, to))
            /\ \A i \in rows(from, to) : DictGet(d, name)[i - from + 1] = t[i]
    IN /\ {q, k, v} \subseteq OutKeys
       /\ holds(q, 1, n) /\ holds(k, n + 1, 2 * n) /\ holds(v, 2 * n + 1, Len(t))

SameEntry(k) ==
    /\ k \in InKeys <=> k \in OutKeys
    /\ k \in InKeys => DictGet(fout.res.state_dict, k) = DictGet(fin.state_dict, k)

\* C9 as stated: afterwards neither prefix+in_proj_weight nor
\* prefix+in_proj_bias remains, each that was present has become its thirds,
\* every other entry is unchanged, and a dict without them is unchanged.
C9_AsStated ==
    fout.done =>
        /\ ~fout.res.raised
        /\ CombinedWeight \notin OutKeys /\ CombinedBias \notin OutKeys
        /\ CombinedWeight \in InKeys => IsThirds(DictGet(fin.state_dict, CombinedWeight), "weight")
        /\ CombinedBias \in InKeys => IsThirds(DictGet(fin.state_dict, CombinedBias), "bias")
        /\ \A k \in (InKeys \cup OutKeys) \ ({CombinedWeight, CombinedBias} \cup SplitNames) :
             SameEntry(k)
        /\ (CombinedWeight \notin InKeys /\ CombinedBias \notin InKeys)
             => fout.res.state_dict = fin.state_dict

\* the keys the code takes for the combined weight: those that END with
\* prefix+in_proj_weight, in dict order
Matching == {k \in InKeys : EndsWith(k, CombinedWeight)}
LastMatching ==
    fin.state_dict[CHOOSE i \in 1..Len(fin.state_dict) :
                     /\ fin.state_dict[i].key \in Matching
                     /\ \A j \in (i + 1)..Len(fin.state_dict) :
                          fin.state_dict[j].key \notin Matching]

\* C9 amended: the operation acts on every key that ends with
\* prefix+in_proj_weight.  With no such key the dict is unchanged (a lone
\* in_proj_bias stays).  Otherwise all such keys are removed, and
\* prefix+in_proj_bias with them if present; q/k/v weight under the prefix
\* are the thirds of the last such weight; q/k/v bias, if the bias was
\* present, are the bias cut after its rows dim and 2*dim, dim being a third
\* of the rows of that weight, which are the thirds of the bias exactly when
\* bias and weight have the same number of rows; every entry outside those
\* keys and the six split names is unchanged and no other key appears.  Only
\* when the bias is present and two or more keys match does the second
\* removal of the bias raise KeyError.
C9_UpgradeSplits ==
    fout.done =>
        /\ fout.res.raised <=> (CombinedBias \in InKeys /\ Cardinality(Matching) >= 2)
        /\ Matching = {} => fout.res.state_dict = fin.state_dict
        /\ (Matching # {} /\ ~fout.res.raised) =>
            /\ OutKeys \cap (Matching \cup {CombinedBias}) = {}
            /\ IsThirds(LastMatching.val, "weight")
            /\ IF CombinedBias \in InKeys
               THEN /\ IsCutAt(DictGet(fin.state_dict, CombinedBias),
                               Len(LastMatching.val) \div 3, "bias")
                    /\ Len(DictGet(fin.state_dict, CombinedBias)) = Len(LastMatching.val)
                         => IsThirds(DictGet(fin.state_dict, CombinedBias), "bias")
               ELSE \A n \in {"q_proj.bias", "k_proj.bias", "v_proj.bias"} :
                      SameEntry(Prefix \o <<n>>)
            /\ \A k \in (InKeys \cup OutKeys) \ (Matching \cup {CombinedBias} \cup SplitNames) :
                 SameEntry(k)

C9_Witness ==
    /\ fout.done /\ ~fout.res.raised
    /\ fin.name = <<"attn">>
    /\ {CombinedWeight, CombinedBias, <<"attn", ".", "out_proj.weight">>} \subseteq InKeys
    /\ Len(DictGet(fin.state_dict, CombinedWeight)) = 6
    /\ CombinedWeight \notin OutKeys /\ CombinedBias \notin OutKeys
    /\ Len(DictGet(fout.res.state_dict, <<"attn", ".", "k_proj.bias">>)) = 2

\* ------------------------------------------------------------- tensors
\* an input tensor (len, bsz, embed_dim): its tokens, named by the argument
\* (query/key/value), the call that passed it, the position and the batch row
Input(arg, stamp, len, bsz) ==
    [s \in 1..len |-> [b \in 1..bsz |-> <<arg, stamp, s, b>>]]

\* a Linear projection w of x acts on every token alone
Proj(w, x) == [s \in 1..Len(x) |-> [b \in 1..Len(x[1]) |-> <<w, x[s][b]>>]]

\* torch.cat([x, bias.repeat(1, bsz, 1)]): one more position, the same
\* learned vector in every one of the query's bsz batch rows; torch.cat
\* wants x to have that many batch rows
CanCatBias(x, bsz) == Len(x[1]) = bsz
CatBias(x, bias, bsz) == Append(x, [b \in 1..bsz |-> <<bias, << >> >>])

\* x.contiguous().view(-1, bsz * num_heads, head_dim).transpose(0, 1), bsz
\* being the batch size of the query: x, stored position after position,
\* batch row after batch row, head after head, is cut into runs of
\* bsz * num_heads heads; row r holds the r-th head of every run.  When x has
\* bsz batch rows, row (b-1)*num_heads+h holds head h of batch row b at every
\* position.  The view raises when the heads of x do not fill whole runs.
CanHeadSplit(x, bsz) == (Len(x) * Len(x[1])) % bsz = 0
HeadSplit(x, bsz) ==
    [r \in 1..(bsz * num_heads) |->
        [p \in 1..((Len(x) * Len(x[1])) \div bsz) |->
            LET u == (p - 1) * bsz * num_heads + (r - 1)
                h == (u % num_heads) + 1
                b == ((u \div num_heads) % Len(x[1])) + 1
                s == ((u \div num_heads) \div Len(x[1])) + 1
            IN <<x[s][b][1], x[s][b][2], h>>]]

RECURSIVE Flatten(_)
Flatten(t) == IF t = << >> THEN << >> ELSE Head(t) \o Flatten(Tail(t))

\* whether the head-split x.contiguous().view(-1, rows, head_dim)
\* .transpose(0, 1) is not contiguous: its rows are laid out position after
\* position, not row after row, unless a size-1 axis makes the two the same
Transposed(t) == Len(t) > 1 /\ Len(t[1]) > 1

\* t.view(rows, -1, head_dim): a contiguous tensor can be viewed with every
\* number of rows dividing its size; one that is strided (a view of a
\* transposed head-split tensor) only with the rows it has, any other size
\* not fitting its strides
CanView(t, strided, rows) ==
    IF strided THEN rows = Len(t) ELSE Len(Flatten(t)) % rows = 0
View(t, rows) ==
    LET flat == Flatten(t)
        n == Len(flat) \div rows
    IN [r \in 1..rows |-> SubSeq(flat, (r - 1) * n + 1, r * n)]

\* torch.cat([a, b], dim=1) of head-split tensors
CatSeq(a, b) == [r \in 1..Len(a) |-> a[r] \o b[r]]

\* torch.cat([k, k.new_zeros((k.size(0), 1) + k.size()[2:])], dim=1)
CatZero(t) == [r \in 1..Len(t) |-> Append(t[r], <<"zero", << >>, 0>>)]

\* torch.cat([attn_mask, attn_mask.new_zeros(attn_mask.size(0), 1)], dim=1);
\* an additive mask is its rows of 0 (keep) and 1 (minus infinity)
AttnMaskPad(m) == [t \in 1..Len(m) |-> Append(m[t], 0)]

\* torch.cat([key_padding_mask, zeros(key_padding_mask.size(0), 1)], dim=1)
PadMaskPad(m) == Cat1(m, Zeros(m.dtype, Size0(m), 1))

\* ----------------------------------------------- the incremental state
\* Every decoding session owns one incremental_state dict; the heap maps the
\* session's handle to it.  The incremental_state a caller passes is a
\* reference to its dict, <<h>>, or None.  The dict holds this module's
\* buffer under "attn_state" or does not; the buffer is a dict of up to
\* three tensors; strided names those of them that are not contiguous.
EmptyBuffer ==
    [keys |-> {}, prev_key |-> None, prev_value |-> None, prev_key_padding_mask |-> None,
     strided |-> {}]
EmptyState == [entries |-> {}, attn_state |-> EmptyBuffer]

\* get_incremental_state (metaseq.incremental_decoding_utils): the entry of
\* the dict referred to, << >> standing for a missing entry, <<buffer>> for a
\* buffer
get_incremental_state(heap, incremental_state, key) ==
    IF incremental_state = None THEN None
    ELSE IF key \notin heap[incremental_state[1]].entries THEN None
    ELSE <<heap[incremental_state[1]].attn_state>>

\* set_incremental_state (metaseq.incremental_decoding_utils): the heap after
\* the dict referred to has got the entry
set_incremental_state(heap, incremental_state, key, value) ==
    IF incremental_state # None
    THEN [heap EXCEPT ![incremental_state[1]] =
            [entries |-> @.entries \cup {key}, attn_state |-> value]]
    ELSE heap

\* Mutant: the buffer is looked up in the dict of the first session, whatever
\* incremental_state is passed.
GetInputBufferShared(heap, incremental_state) ==
    LET result == get_incremental_state(heap, <<1>>, "attn_state")
    IN IF result # None THEN result[1] ELSE EmptyBuffer

\* MultiheadAttention._get_input_buffer
get_input_buffer(heap, incremental_state) ==
    LET result == get_incremental_state(heap, incremental_state, "attn_state")
    IN IF result # None THEN result[1] ELSE EmptyBuffer

\* MultiheadAttention._set_input_buffer
set_input_buffer(heap, incremental_state, buffer) ==
    set_incremental_state(heap, incremental_state, "attn_state", buffer)

\* ------------------------------------------------------------ forward()
\* forward() is a chain of stages over a frame of its local variables.
\* frame.raised names the line whose assertion or operation failed ("" while
\* none has); a stage leaves a frame that has raised as it is.

\* lines 164-176: need_weights, the sizes of query and key, the first checks
ForwardEntry(heap, incremental_state, a) ==
    LET f == [raised |-> "", path |-> "own", heap |-> heap,
              incremental_state |-> incremental_state, saved_state |-> None,
              wrote |-> FALSE, projected |-> FALSE,
              static_kv |-> a.static_kv, before_softmax |-> a.before_softmax,
              need_head_weights |-> a.need_head_weights,
              need_weights |-> (a.need_head_weights \/ a.need_weights),
              query |-> a.query, key |-> a.key, value |-> a.value,
              tgt_len |-> Len(a.query), bsz |-> Len(a.query[1]),
              src_len |-> IF a.key # None THEN Len(a.key) ELSE Len(a.query),
              q |-> None, k |-> None, v |-> None,
              key_padding_mask |-> a.key_padding_mask, attn_mask |-> a.attn_mask,
              attn_weights_size |-> None, attends |-> None, returns |-> None,
              strided |-> {}]
    IN IF ~a.query_dim_ok THEN [f EXCEPT !.raised = "169"]
       ELSE IF a.key # None /\ Len(a.key[1]) # f.bsz THEN [f EXCEPT !.raised = "174"]
       ELSE IF a.key # None /\ a.value = None THEN [f EXCEPT !.raised = "175"]
       ELSE f

\* Mutant: static_kv is refused on every module that is not in
\* encoder-decoder mode, whatever the cache holds.
SavedStateRefusingStatic(c, f) ==
    IF f.raised # "" THEN f
    ELSE IF f.static_kv /\ ~(c.encoder_decoder_attention /\ ~c.self_attention)
    THEN [f EXCEPT !.raised = "219"]
    ELSE IF f.incremental_state # None
    THEN LET saved_state == get_input_buffer(f.heap, f.incremental_state)
             g == [f EXCEPT !.saved_state = saved_state]
         IN IF "prev_key" \in saved_state.keys /\ f.static_kv
            THEN [g EXCEPT !.key = None, !.value = None]
            ELSE g
    ELSE f

\* lines 213-222: the saved state, and key = value = None when it is reused
ForwardSavedState(c, f) ==
    IF f.raised # "" THEN f
    ELSE IF f.incremental_state # None
    THEN LET saved_state == get_input_buffer(f.heap, f.incremental_state)
             g == [f EXCEPT !.saved_state = saved_state]
         IN IF "prev_key" \in saved_state.keys /\ f.static_kv
            THEN IF c.encoder_decoder_attention /\ ~c.self_attention
                 THEN [g EXCEPT !.key = None, !.value = None]
                 ELSE [g EXCEPT !.raised = "219"]
            ELSE g
    ELSE f

\* lines 224-243: the projections of the mode
ForwardProject(c, f) ==
    IF f.raised # "" THEN f
    ELSE IF c.self_attention
    THEN [f EXCEPT !.q = Proj("q", f.query), !.k = Proj("k", f.query),
                   !.v = Proj("v", f.query), !.projected = TRUE]
    ELSE IF c.encoder_decoder_attention
    THEN IF f.key = None
         THEN IF f.value # None THEN [f EXCEPT !.raised = "232"]
              ELSE [f EXCEPT !.q = Proj("q", f.query)]
         ELSE [f EXCEPT !.q = Proj("q", f.query), !.k = Proj("k", f.key),
                        !.v = Proj("v", f.key), !.projected = TRUE]
    ELSE IF f.key = None \/ f.value = None THEN [f EXCEPT !.raised = "239"]
    ELSE [f EXCEPT !.q = Proj("q", f.query), !.k = Proj("k", f.key),
                   !.v = Proj("v", f.value), !.projected = TRUE]

\* lines 245-260: the bias tokens; torch.cat of None raises TypeError, of
\* a v with another batch size than the query's RuntimeError
ForwardBiasKV(c, f) ==
    IF f.raised # "" \/ ~c.add_bias_kv THEN f
    ELSE IF f.k = None \/ ~CanCatBias(f.k, f.bsz) THEN [f EXCEPT !.raised = "247"]
    ELSE IF f.v = None \/ ~CanCatBias(f.v, f.bsz) THEN [f EXCEPT !.raised = "248"]
    ELSE [f EXCEPT !.k = CatBias(f.k, "bias_k", f.bsz), !.v = CatBias(f.v, "bias_v", f.bsz),
                   !.attn_mask = IF f.attn_mask # None THEN AttnMaskPad(f.attn_mask) ELSE None,
                   !.key_padding_mask =
                       IF f.key_padding_mask # None THEN PadMaskPad(f.key_padding_mask)
                       ELSE None]

\* lines 268-284: q, k and v split into heads with the batch size of the
\* query (no sharded weights)
ForwardHeads(f) ==
    IF f.raised # "" THEN f
    ELSE IF f.k # None /\ ~CanHeadSplit(f.k, f.bsz) THEN [f EXCEPT !.raised = "282"]
    ELSE IF f.v # None /\ ~CanHeadSplit(f.v, f.bsz) THEN [f EXCEPT !.raised = "284"]
    ELSE [f EXCEPT !.q = HeadSplit(f.q, f.bsz),
                   !.k = IF f.k # None THEN HeadSplit(f.k, f.bsz) ELSE None,
                   !.v = IF f.v # None THEN HeadSplit(f.v, f.bsz) ELSE None,
                   !.strided =
                       (IF f.k # None /\ Transposed(HeadSplit(f.k, f.bsz)) THEN {"k"} ELSE {})
                       \cup (IF f.v # None /\ Transposed(HeadSplit(f.v, f.bsz))
                             THEN {"v"} ELSE {})]

\* Mutant: the cached keys are not put in front of the new ones.
PrevKeyNotAppended(f) ==
    IF f.raised # "" \/ "prev_key" \notin f.saved_state.keys THEN f
    ELSE IF f.static_kv
    THEN [f EXCEPT !.k = View(f.saved_state.prev_key, f.bsz * num_heads),
                   !.src_len = Len(f.saved_state.prev_key[1]),
                   !.strided = (@ \ {"k"}) \cup
                       (IF "prev_key" \in f.saved_state.strided THEN {"k"} ELSE {})]
    ELSE IF f.k = None THEN [f EXCEPT !.raised = "325"]
    ELSE [f EXCEPT !.src_len = Len(f.k[1])]

\* lines 318-327: k from the cached keys
ForwardPrevKey(f) ==
    IF f.raised # "" \/ "prev_key" \notin f.saved_state.keys THEN f
    ELSE IF ~CanView(f.saved_state.prev_key, "prev_key" \in f.saved_state.strided,
                     f.bsz * num_heads)
    THEN [f EXCEPT !.raised = "321"]
    ELSE LET prev_key == View(f.saved_state.prev_key, f.bsz * num_heads)
         IN IF f.static_kv
            THEN [f EXCEPT !.k = prev_key, !.src_len = Len(prev_key[1]),
                           !.strided = (@ \ {"k"}) \cup
                               (IF "prev_key" \in f.saved_state.strided THEN {"k"} ELSE {})]
            ELSE IF f.k = None THEN [f EXCEPT !.raised = "325"]
            ELSE [f EXCEPT !.k = CatSeq(prev_key, f.k),
                           !.src_len = Len(prev_key[1]) + Len(f.k[1]),
                           !.strided = @ \ {"k"}]

\* lines 328-336: v from the cached values
ForwardPrevValue(f) ==
    IF f.raised # "" \/ "prev_value" \notin f.saved_state.keys THEN f
    ELSE IF ~CanView(f.saved_state.prev_value, "prev_value" \in f.saved_state.strided,
                     f.bsz * num_heads)
    THEN [f EXCEPT !.raised = "331"]
    ELSE LET prev_value == View(f.saved_state.prev_value, f.bsz * num_heads)
         IN IF f.static_kv
            THEN [f EXCEPT !.v = prev_value,
                           !.strided = (@ \ {"v"}) \cup
                               (IF "prev_value" \in f.saved_state.strided THEN {"v"} ELSE {})]
            ELSE IF f.v = None THEN [f EXCEPT !.raised = "335"]
            ELSE [f EXCEPT !.v = CatSeq(prev_value, f.v), !.strided = @ \ {"v"}]

\* lines 355-365: the assertions on k and on the padding mask
ForwardAsserts(f) ==
    IF f.raised # "" THEN f
    ELSE IF f.k = None THEN [f EXCEPT !.raised = "355"]
    ELSE IF Len(f.k[1]) # f.src_len THEN [f EXCEPT !.raised = "356"]
    ELSE IF f.key_padding_mask # None /\ Size0(f.key_padding_mask) # f.bsz
    THEN [f EXCEPT !.raised = "364"]
    ELSE IF f.key_padding_mask # None /\ Size1(f.key_padding_mask) # f.src_len
    THEN [f EXCEPT !.raised = "365"]
    ELSE f

\* Mutant: the saved state is written back only when the assertions of
\* lines 355-365 are going to pass.
StoreWhenAssertsPass(c, f) ==
    IF f.raised # "" \/ ForwardAsserts(f).raised # "" THEN f
    ELSE LET saved_state == [keys |-> {"prev_key", "prev_value", "prev_key_padding_mask"},
                             prev_key |-> f.k, prev_value |-> f.v,
                             prev_key_padding_mask |-> f.key_padding_mask,
                             strided |->
                                 (IF "k" \in f.strided THEN {"prev_key"} ELSE {})
                                 \cup (IF "v" \in f.strided THEN {"prev_value"} ELSE {})]
         IN [f EXCEPT !.saved_state = saved_state, !.wrote = TRUE,
                      !.heap = set_input_buffer(f.heap, f.incremental_state, saved_state)]

\* lines 349-354: the saved state written back, k and v viewed as
\* (bsz, num_heads, -1, head_dim)
ForwardStore(c, f) ==
    IF f.raised # "" THEN f
    ELSE LET saved_state == [keys |-> {"prev_key", "prev_value", "prev_key_padding_mask"},
                             prev_key |-> f.k, prev_value |-> f.v,
                             prev_key_padding_mask |-> f.key_padding_mask,
                             strided |->
                                 (IF "k" \in f.strided THEN {"prev_key"} ELSE {})
                                 \cup (IF "v" \in f.strided THEN {"prev_value"} ELSE {})]
         IN [f EXCEPT !.saved_state = saved_state, !.wrote = TRUE,
                      !.heap = set_input_buffer(f.heap, f.incremental_state, saved_state)]

\* Mutant: the mask of the call is kept as it is, the cached mask is not
\* put in front of it.
PadMaskNotAppended(f) ==
    IF f.raised # "" THEN f
    ELSE IF f.k = None \/ f.v = None THEN [f EXCEPT !.raised = "340"]
    ELSE f

\* lines 337-347: the padding masks combined
ForwardPadMask(f) ==
    IF f.raised # "" THEN f
    ELSE IF f.k = None \/ f.v = None THEN [f EXCEPT !.raised = "340"]
    ELSE LET prev_key_padding_mask ==
                 IF "prev_key_padding_mask" \in f.saved_state.keys
                 THEN f.saved_state.prev_key_padding_mask ELSE None
             new == append_prev_key_padding_mask(f.key_padding_mask, prev_key_padding_mask,
                                                 f.bsz, Len(f.k[1]), f.static_kv)
         IN IF new.ok THEN [f EXCEPT !.key_padding_mask = new.val]
            ELSE [f EXCEPT !.raised = "341"]

\* lines 316-354: the cache consulted and written back
ForwardCache(c, f) ==
    IF f.raised # "" \/ f.saved_state = None THEN f
    ELSE ForwardStore(c, ForwardPadMask(ForwardPrevValue(ForwardPrevKey(f))))

\* Mutant: the all-zero position is appended to the cached keys and values
\* as well.
ZeroAttnCached(c, f) ==
    IF f.raised # "" \/ ~c.add_zero_attn THEN f
    ELSE LET g == [f EXCEPT !.src_len = f.src_len + 1,
                            !.k = CatZero(f.k), !.v = CatZero(f.v), !.strided = {},
                            !.attn_mask =
                                IF f.attn_mask # None THEN AttnMaskPad(f.attn_mask) ELSE None,
                            !.key_padding_mask =
                                IF f.key_padding_mask # None THEN PadMaskPad(f.key_padding_mask)
                                ELSE None]
         IN IF f.saved_state = None THEN g
            ELSE [g EXCEPT !.heap = set_input_buffer(f.heap, f.incremental_state,
                                       [f.saved_state EXCEPT !.prev_key = g.k,
                                                             !.prev_value = g.v,
                                                             !.strided = {}])]

\* lines 367-385: the all-zero position
ForwardZeroAttn(c, f) ==
    IF f.raised # "" \/ ~c.add_zero_attn THEN f
    ELSE [f EXCEPT !.src_len = f.src_len + 1,
                   !.k = CatZero(f.k), !.v = CatZero(f.v), !.strided = {},
                   !.attn_mask = IF f.attn_mask # None THEN AttnMaskPad(f.attn_mask) ELSE None,
                   !.key_padding_mask =
                       IF f.key_padding_mask # None THEN PadMaskPad(f.key_padding_mask)
                       ELSE None]

\* whether source position j is excluded for target position t of row r:
\* minus infinity added by attn_mask (broadcast over a size-1 axis), or a
\* padded key of the row's batch entry
Excluded(f, r, t, j) ==
    \/ /\ f.attn_mask # None
       /\ f.attn_mask[IF Len(f.attn_mask) = 1 THEN 1 ELSE t]
                     [IF Len(f.attn_mask[1]) = 1 THEN 1 ELSE j] = 1
    \/ /\ f.key_padding_mask # None
       /\ f.key_padding_mask.rows[((r - 1) \div num_heads) + 1][j] = 1

\* for every row and target position, the <<key, value>> cells of the source
\* positions that take part in the softmax and the weighted sum, in order
Attends(f) ==
    [r \in 1..Len(f.k) |->
        [t \in 1..f.tgt_len |->
            LET js == SelectSeq([j \in 1..Len(f.k[r]) |-> j],
                                LAMBDA j : ~Excluded(f, r, t, j))
            IN [i \in 1..Len(js) |-> <<f.k[r][js[i]], f.v[r][js[i]]>>]]]

\* lines 387-437: the scores, their shape, attn_mask added, padding masked
ForwardScores(f) ==
    IF f.raised # "" THEN f
    ELSE LET size == <<Len(f.q), f.tgt_len, Len(f.k[1])>>
         IN IF size # <<f.bsz * num_heads, f.tgt_len, f.src_len>>
            THEN [f EXCEPT !.raised = "407"]
            ELSE IF /\ f.attn_mask # None
                    /\ \/ Len(f.attn_mask) \notin {1, f.tgt_len}
                       \/ Len(f.attn_mask[1]) \notin {1, f.src_len}
            THEN [f EXCEPT !.raised = "428"]
            ELSE [f EXCEPT !.attn_weights_size = size]

\* shapes: Tensor.transpose(1, 0) and Tensor.mean(dim=0)
Transpose10(shape) == <<shape[2], shape[1]>> \o SubSeq(shape, 3, Len(shape))
MeanDim0(shape) == Tail(shape)

\* lines 476-483: the shape of the attention weights returned, None when they
\* are not needed
ReturnedWeights(f) ==
    LET viewed == <<f.bsz, num_heads, f.tgt_len, f.src_len>>
    IN IF ~f.need_weights THEN None
       ELSE IF f.need_head_weights THEN Transpose10(viewed)
       ELSE MeanDim0(Transpose10(viewed))

\* lines 439-485: what forward() returns: the shapes of its two results, and
\* whether the second one is attn_weights or, before the softmax, v (whose
\* head_dim is left out)
ForwardReturn(f) ==
    IF f.raised # "" THEN f
    ELSE IF f.before_softmax
    THEN [f EXCEPT !.returns = [attn |-> f.attn_weights_size,
                                attn_weights |-> <<Len(f.v), Len(f.v[1])>>,
                                second |-> "v"]]
    ELSE IF Len(f.v[1]) # f.src_len THEN [f EXCEPT !.raised = "452"]
    ELSE [f EXCEPT !.attends = Attends(f),
                   !.returns = [attn |-> <<f.tgt_len, f.bsz>>,
                                attn_weights |-> ReturnedWeights(f),
                                second |-> "attn_weights"]]

\* lines 188-211: torch.nn.functional.multi_head_attention_forward with the
\* module's separate projection weights: it projects query, key and value,
\* appends the bias tokens and the zero position itself, checks the shapes of
\* both masks against the extended key length and averages the weights
FastPath(c, f) ==
    IF f.key = None \/ f.value = None THEN [f EXCEPT !.raised = "188", !.path = "fast"]
    ELSE IF <<Len(f.key), Len(f.key[1])>> # <<Len(f.value), Len(f.value[1])>>
    THEN [f EXCEPT !.raised = "189", !.path = "fast"]
    ELSE LET g == ForwardHeads(ForwardBiasKV(c,
                    [f EXCEPT !.path = "fast", !.projected = TRUE,
                              !.q = Proj("q", f.query), !.k = Proj("k", f.key),
                              !.v = Proj("v", f.value)]))
             h == ForwardZeroAttn(c, [g EXCEPT !.src_len = Len(g.k[1])])
         IN IF \/ /\ h.attn_mask # None
                  /\ <<Len(h.attn_mask), Len(h.attn_mask[1])>> # <<h.tgt_len, h.src_len>>
               \/ /\ h.key_padding_mask # None
                  /\ <<Size0(h.key_padding_mask), Size1(h.key_padding_mask)>> # <<h.bsz, h.src_len>>
               \/ Len(h.v[1]) # h.src_len
            THEN [f EXCEPT !.raised = "189", !.path = "fast"]
            ELSE [h EXCEPT !.attn_weights_size = <<Len(h.q), h.tgt_len, h.src_len>>,
                           !.attends = Attends(h),
                           !.returns =
                              [attn |-> <<h.tgt_len, h.bsz>>,
                               attn_weights |->
                                  IF h.need_weights THEN <<h.bsz, h.tgt_len, h.src_len>>
                                  ELSE None,
                               second |-> "attn_weights"]]

\* MultiheadAttention.forward (onnx_trace off, not scripting, no sharding)
forward(c, heap, incremental_state, a) ==
    LET f == ForwardEntry(heap, incremental_state, a)
    IN IF f.raised # "" THEN f
       ELSE IF incremental_state = None /\ ~a.static_kv THEN FastPath(c, f)
       ELSE ForwardReturn(ForwardScores(ForwardZeroAttn(c, ForwardAsserts(
              ForwardCache(c, ForwardHeads(ForwardBiasKV(c, ForwardProject(c,
                ForwardSavedState(c, f)))))))))

\* ------------------------------------------ reorder_incremental_state
\* tensor.index_select(0, new_order) on a head-split tensor of batch size
\* Len(t) / num_heads, stored row after row
SelectRows(t, new_order) ==
    [r \in 1..(Len(new_order) * num_heads) |->
        t[(new_order[((r - 1) \div num_heads) + 1] - 1) * num_heads + ((r - 1) % num_heads) + 1]]

\* the same on a padding mask
SelectMaskRows(m, new_order) ==
    [dtype |-> m.dtype, rows |-> [i \in 1..Len(new_order) |-> m.rows[new_order[i]]]]

\* the leading size and the selection of the buffer entry k
LeadingSize(buffer, k) ==
    IF k = "prev_key_padding_mask" THEN Size0(buffer[k]) ELSE Len(buffer[k]) \div num_heads
IndexSelect(buffer, k, new_order) ==
    IF k = "prev_key_padding_mask" THEN SelectMaskRows(buffer[k], new_order)
    ELSE SelectRows(buffer[k], new_order)

BufferKeys == <<"prev_key", "prev_value", "prev_key_padding_mask">>

\* Mutant: an entry that is skipped does not end the loop (continue for break).
RECURSIVE ReorderLoopContinue(_, _, _, _)
ReorderLoopContinue(c, buffer, new_order, i) ==
    IF i > Len(BufferKeys) THEN [raised |-> FALSE, buffer |-> buffer]
    ELSE LET k == BufferKeys[i]
         IN IF k \notin buffer.keys \/ buffer[k] = None
            THEN ReorderLoopContinue(c, buffer, new_order, i + 1)
            ELSE IF c.encoder_decoder_attention /\ LeadingSize(buffer, k) = Len(new_order)
            THEN ReorderLoopContinue(c, buffer, new_order, i + 1)
            ELSE IF \E n \in 1..Len(new_order) : new_order[n] > LeadingSize(buffer, k)
            THEN [raised |-> TRUE, buffer |-> buffer]
            ELSE ReorderLoopContinue(c, [buffer EXCEPT ![k] = IndexSelect(buffer, k, new_order),
                                                        !.strided = @ \ {k}],
                                     new_order, i + 1)

\* lines 540-547: the loop over the buffer's keys, in insertion order, from
\* the i-th on; index_select returns a new, contiguous tensor.  raised tells that index_select met an index out of range;
\* the entries replaced before that stay replaced, the buffer being the dict
\* the incremental state holds.
RECURSIVE ReorderLoop(_, _, _, _)
ReorderLoop(c, buffer, new_order, i) ==
    IF i > Len(BufferKeys) THEN [raised |-> FALSE, buffer |-> buffer]
    ELSE LET k == BufferKeys[i]
         IN IF k \notin buffer.keys \/ buffer[k] = None
            THEN ReorderLoop(c, buffer, new_order, i + 1)
            ELSE IF c.encoder_decoder_attention /\ LeadingSize(buffer, k) = Len(new_order)
            THEN [raised |-> FALSE, buffer |-> buffer]
            ELSE IF \E n \in 1..Len(new_order) : new_order[n] > LeadingSize(buffer, k)
            THEN [raised |-> TRUE, buffer |-> buffer]
            ELSE ReorderLoop(c, [buffer EXCEPT ![k] = IndexSelect(buffer, k, new_order),
                                                !.strided = @ \ {k}],
                             new_order, i + 1)

\* Mutant: the three entries are looked up by name, so that a buffer without
\* them raises.
ReorderIndexingKeys(c, heap, incremental_state, new_order) ==
    LET input_buffer == get_input_buffer(heap, incremental_state)
        done == ReorderLoop(c, input_buffer, new_order, 1)
    IN IF input_buffer.keys = {}
       THEN [raised |-> TRUE, heap |-> heap]
       ELSE [raised |-> done.raised,
             heap |-> set_input_buffer(heap, incremental_state, done.buffer)]

\* MultiheadAttention.reorder_incremental_state; new_order holds batch
\* indices from 1.  When index_select raises, the entries replaced so far
\* stay replaced: the buffer is the dict the incremental state holds.
reorder_incremental_state(c, heap, incremental_state, new_order) ==
    LET input_buffer == get_input_buffer(heap, incremental_state)
        done == ReorderLoop(c, input_buffer, new_order, 1)
    IN [raised |-> done.raised,
        heap |-> set_input_buffer(heap, incremental_state, done.buffer)]

\* ------------------------------------------------- the decoding sessions
Handles == {1, 2}

\* the module configurations: __init__ accepts every combination of flags
Configs ==
    [self_attention : BOOLEAN, encoder_decoder_attention : BOOLEAN,
     add_bias_kv : BOOLEAN, add_zero_attn : BOOLEAN]

\* the batch size a session decodes with: that of its cache once it has one
SessionBsz(heap, h) ==
    LET buffer == get_input_buffer(heap, <<h>>)
    IN IF "prev_key" \in buffer.keys THEN Len(buffer.prev_key) \div num_heads ELSE 0

\* the padding mask a caller passes: its last position padded in the first
\* row, the pattern shifted by one in every further row
PaddingMask(batch, len) == MaskOf("bool", batch, len, 1)

Args(query, query_dim_ok, key, value, key_padding_mask, attn_mask, static_kv, need_weights, need_head_weights, before_softmax) ==
    [query |-> query, query_dim_ok |-> query_dim_ok, key |-> key, value |-> value,
     key_padding_mask |-> key_padding_mask, attn_mask |-> attn_mask,
     static_kv |-> static_kv, need_weights |-> need_weights,
     need_head_weights |-> need_head_weights, before_softmax |-> before_softmax]

\* The arguments of a decoding step of a session whose batch size is bsz (0:
\* not fixed yet, the session starts with MaxB).  A self-attention step
\* passes its query of 1..MaxLen new positions as key and value too, or no
\* key; any other step passes one query position and a key and value of
\* 1..MaxLen positions, or none.  The padding mask is absent or covers the
\* key (the query when there is no key).
StepArgs(c, stamp, bsz) ==
    { Args(Input("query", stamp, tl, b), TRUE,
           IF kl = 0 THEN None ELSE Input("key", stamp, kl, b),
           IF kl = 0 THEN None ELSE Input("value", stamp, kl, b),
           IF hm THEN PaddingMask(b, IF kl = 0 THEN tl ELSE kl) ELSE None,
           None, st, FALSE, FALSE, FALSE) :
        <<b, tl, kl, hm, st>> \in
          { x \in (1..MaxB) \X (1..MaxLen) \X (0..MaxLen) \X BOOLEAN \X BOOLEAN :
              /\ x[1] = (IF bsz = 0 THEN MaxB ELSE bsz)
              /\ c.self_attention => x[3] \in {0, x[2]}
              /\ ~c.self_attention => x[2] = 1 } }

\* The calls whose arguments break a precondition (lines 169-175, 232, 239,
\* 321, 364, 365): a query of another embed_dim, a key of another batch size,
\* a key without value, a value without key, a padding mask of another batch
\* size, a padding mask longer than the key, a value of another batch size
\* or length than the key (line 176 asserts nothing about it) and, once the session
\* has a cache, a query, key and value of another batch size than the cache.
FaultyArgs(c, stamp, bsz) ==
    LET b == IF bsz = 0 THEN MaxB ELSE bsz
        query == Input("query", stamp, 1, b)
        key == Input("key", stamp, 1, b)
        value == Input("value", stamp, 1, b)
        other == (b % MaxB) + 1
    IN { Args(query, FALSE, key, value, None, None, FALSE, FALSE, FALSE, FALSE),
         Args(query, TRUE, Input("key", stamp, 1, b + 1), Input("value", stamp, 1, b + 1),
              None, None, FALSE, FALSE, FALSE, FALSE),
         Args(query, TRUE, key, None, None, None, FALSE, FALSE, FALSE, FALSE),
         Args(query, TRUE, None, value, None, None, FALSE, FALSE, FALSE, FALSE),
         Args(query, TRUE, key, Input("value", stamp, 1, b + 1), None, None,
              FALSE, FALSE, FALSE, FALSE),
         Args(query, TRUE, key, Input("value", stamp, 2, 1), None, None,
              FALSE, FALSE, FALSE, FALSE) }
       \cup
       { Args(query, TRUE, key, value, PaddingMask(mb, ml), None, st, FALSE, FALSE, FALSE) :
           <<mb, ml, st>> \in {<<b + 1, 1, FALSE>>, <<b, 2, FALSE>>, <<b, 2, TRUE>>} }
       \cup
       { Args(Input("query", stamp, 1, other), TRUE, Input("key", stamp, 1, other),
              Input("value", stamp, 1, other), None, None, FALSE, FALSE, FALSE, FALSE) :
           x \in IF bsz = 0 THEN {} ELSE {bsz} }

\* new_order of reorder_incremental_state: beams kept, dropped or repeated,
\* up to one more hypothesis than the cache holds
NewOrders(bsz) == UNION { [1..n -> 1..bsz] : n \in 1..(MaxB + 1) }

Init ==
    /\ cfg \in Configs
    /\ store = [h \in Handles |-> EmptyState]
    /\ solo = [h \in Handles |-> [g \in Handles |-> EmptyState]]
    /\ calls = [h \in Handles |-> [forward |-> 0, reorder |-> 0]]
    /\ last = Idle
    /\ fin = None /\ fout = None

\* session h calls forward(..., incremental_state=its dict, ...); alone tells
\* whether the run of the session by itself is followed as well
Forward(h, a, alone) ==
    LET f == forward(cfg, store, <<h>>, a)
    IN /\ store' = f.heap
       /\ solo' = IF alone
                  THEN [solo EXCEPT ![h] = forward(cfg, solo[h], <<h>>, a).heap]
                  ELSE solo
       /\ calls' = [calls EXCEPT ![h].forward = @ + 1]
       /\ last' = [op |-> "forward", handle |-> <<h>>, args |-> a, f |-> f,
                   before |-> get_input_buffer(store, <<h>>)]
       /\ UNCHANGED <<cfg, fin, fout>>

Step(h) ==
    /\ calls[h].forward < MaxSteps
    /\ \E a \in StepArgs(cfg, calls[h].forward + 1, SessionBsz(store, h)) :
         Forward(h, a, FALSE)

FaultyStep(h) ==
    /\ calls[h].forward < MaxSteps
    /\ \E a \in FaultyArgs(cfg, calls[h].forward + 1, SessionBsz(store, h)) :
         Forward(h, a, FALSE)

\* forward() without incremental_state.  Such a call reads and keeps nothing
\* of a session, so it is taken before the session starts only.
Stateless ==
    /\ calls[1] = [forward |-> 0, reorder |-> 0]
    /\ \E a \in StepArgs(cfg, 0, 0) \cup FaultyArgs(cfg, 0, 0) :
         last' = [op |-> "forward", handle |-> None, args |-> a,
                  f |-> forward(cfg, store, None, a), before |-> EmptyBuffer]
    /\ UNCHANGED <<cfg, store, solo, calls, fin, fout>>

\* session h calls reorder_incremental_state(its dict, new_order)
Reorder(h, alone) ==
    /\ calls[h].reorder < MaxReorders
    /\ \E new_order \in NewOrders(Max(1, SessionBsz(store, h))) :
         LET r == reorder_incremental_state(cfg, store, <<h>>, new_order)
         IN /\ store' = r.heap
            /\ solo' = IF alone
                       THEN [solo EXCEPT ![h] =
                               reorder_incremental_state(cfg, solo[h], <<h>>, new_order).heap]
                       ELSE solo
            /\ last' = [op |-> "reorder", handle |-> <<h>>, new_order |-> new_order,
                        raised |-> r.raised, before |-> get_input_buffer(store, <<h>>),
                        entries |-> store[h].entries]
    /\ calls' = [calls EXCEPT ![h].reorder = @ + 1]
    /\ UNCHANGED <<cfg, fin, fout>>

Next == Step(1) \/ FaultyStep(1) \/ Stateless \/ Reorder(1, FALSE)

Spec == Init /\ [][Next]_vars
\* ------------------------------------------------ C1, C5, C6, C7, C10
WasForward == last.op = "forward"
WasReorder == last.op = "reorder"
\* the buffer of the session the last operation was called on, afterwards
After == get_input_buffer(store, last.handle)

EncoderDecoderMode == cfg.encoder_decoder_attention /\ ~cfg.self_attention

\* the last call was forward() with static_kv=True on a session whose cache
\* already held keys
StaticReuse ==
    /\ WasForward /\ last.handle # None /\ last.args.static_kv
    /\ "prev_key" \in last.before.keys

\* the arguments meet the preconditions of lines 169-176
ArgsWellFormed(a) ==
    /\ a.query_dim_ok
    /\ a.key # None => (Len(a.key[1]) = Len(a.query[1]) /\ a.value # None)
    /\ a.key = None => a.value = None

\* C1 as stated: in encoder-decoder mode every forward() with static_kv=True
\* and well-formed arguments on a session whose cache holds keys leaves
\* prev_key and prev_value as they were, projects no key or value, and goes
\* on with the cached tensors as k and v (followed by the zero position when
\* add_zero_attn is set).
C1_StaticReuseKeepsCache ==
    (EncoderDecoderMode /\ StaticReuse /\ ArgsWellFormed(last.args)) =>
        /\ After.prev_key = last.before.prev_key
        /\ After.prev_value = last.before.prev_value
        /\ ~last.f.projected
        /\ last.f.wrote
        /\ last.f.k \in {last.before.prev_key, CatZero(last.before.prev_key)}
        /\ last.f.v \in {last.before.prev_value, CatZero(last.before.prev_value)}

\* C1 on the modules without bias tokens, where the static call gets past
\* line 247
C1_WithoutBiasTokens == cfg.add_bias_kv \/ C1_StaticReuseKeepsCache

\* C7 as stated: every forward() with static_kv=True on a self-attention
\* module raises, with or without incremental_state, with or without keys in
\* the cache.
C7_StaticAlwaysRaises ==
    (WasForward /\ cfg.self_attention /\ last.args.static_kv) => last.f.raised # ""

\* C7 amended: on a self-attention module a forward() with static_kv=True and
\* well-formed arguments fails the static_kv assertion of line 219 exactly
\* when an incremental state is passed and its cache already holds prev_key;
\* without incremental state, or on an empty cache, static_kv is not checked.
C7_StaticRaisesOnCacheOnly ==
    (WasForward /\ cfg.self_attention /\ last.args.static_kv /\ ArgsWellFormed(last.args)) =>
        (last.f.raised = "219" <=> (last.handle # None /\ "prev_key" \in last.before.keys))

C7_Witness ==
    /\ WasForward /\ cfg.self_attention /\ ~cfg.encoder_decoder_attention
    /\ last.args.static_kv /\ last.handle # None
    /\ "prev_key" \in last.before.keys /\ last.f.raised = "219"

\* C10 as stated: with bias tokens a forward() on the module's own path with
\* well-formed arguments (a padding mask, if any, covering the key) on an
\* empty cache returns: k and v are one position longer than the S projected
\* keys, the padding mask has one more non-masked column, and the source
\* length checked is S + 1.
C10_BiasTokensExtendSrcLen ==
    LET S == IF cfg.self_attention \/ last.args.key = None THEN Len(last.args.query)
             ELSE Len(last.args.key)
    IN (/\ WasForward /\ cfg.add_bias_kv /\ last.f.path = "own"
        /\ ArgsWellFormed(last.args) /\ last.f.projected
        /\ "prev_key" \notin last.before.keys
        /\ last.args.key_padding_mask # None =>
             /\ Size0(last.args.key_padding_mask) = Len(last.args.query[1])
             /\ Size1(last.args.key_padding_mask) = S)
       => /\ last.f.raised = ""
          /\ last.f.src_len = S + 1 + (IF cfg.add_zero_attn THEN 1 ELSE 0)
          /\ Len(last.f.k[1]) = last.f.src_len /\ Len(last.f.v[1]) = last.f.src_len

\* the first buffer entry, in key order, at which reorder stops: a tensor
\* whose leading size is Len(new_order) while the module has
\* encoder_decoder_attention set (4 when there is none)
RECURSIVE FirstSkipped(_, _, _)
FirstSkipped(buffer, new_order, i) ==
    IF i > Len(BufferKeys) THEN i
    ELSE IF /\ BufferKeys[i] \in buffer.keys /\ buffer[BufferKeys[i]] # None
            /\ cfg.encoder_decoder_attention
            /\ LeadingSize(buffer, BufferKeys[i]) = Len(new_order)
    THEN i
    ELSE FirstSkipped(buffer, new_order, i + 1)

\* after is before with its batch axis permuted: after[i] = before[new_order[i]]
IsPermuted(k, before, after, new_order) ==
    IF k = "prev_key_padding_mask"
    THEN /\ Size0(after) = Len(new_order)
         /\ \A i \in 1..Len(new_order) : after.rows[i] = before.rows[new_order[i]]
    ELSE /\ Len(after) = Len(new_order) * num_heads
         /\ \A i \in 1..Len(new_order), h \in 1..num_heads :
              after[(i - 1) * num_heads + h] = before[(new_order[i] - 1) * num_heads + h]

ReorderReturned == WasReorder /\ ~last.raised /\ last.before.keys # {}

\* C5 as stated: reorder permutes every non-none cached tensor, except that
\* a tensor is left untouched exactly when encoder_decoder_attention is set
\* and its own leading size equals Len(new_order), whatever happened to the
\* tensors before it.
C5_SkipDecidedPerTensor ==
    ReorderReturned =>
        \A i \in 1..Len(BufferKeys) :
            LET k == BufferKeys[i]
            IN IF last.before[k] = None THEN After[k] = None
               ELSE IF cfg.encoder_decoder_attention
                       /\ LeadingSize(last.before, k) = Len(last.new_order)
               THEN After[k] = last.before[k]
               ELSE IsPermuted(k, last.before[k], After[k], last.new_order)

\* C5 amended: reorder goes through prev_key, prev_value and
\* prev_key_padding_mask in this order and permutes the batch axis of every
\* non-none tensor, result[i] = t[new_order[i]], until it meets a tensor
\* whose leading size equals Len(new_order) while encoder_decoder_attention
\* is set: that tensor and all tensors after it are left untouched.
C5_ReorderStopsAtFirstSkipped ==
    ReorderReturned =>
        \A i \in 1..Len(BufferKeys) :
            LET k == BufferKeys[i]
            IN IF last.before[k] = None THEN After[k] = None
               ELSE IF i >= FirstSkipped(last.before, last.new_order, 1)
               THEN After[k] = last.before[k]
               ELSE IsPermuted(k, last.before[k], After[k], last.new_order)

C5_Witness ==
    /\ ReorderReturned /\ cfg.encoder_decoder_attention
    /\ last.new_order = <<2, 1, 1>>
    /\ FirstSkipped(last.before, last.new_order, 1) = 3
    /\ IsPermuted("prev_key", last.before.prev_key, After.prev_key, last.new_order)
    /\ After.prev_key # last.before.prev_key
    /\ After.prev_key_padding_mask = last.before.prev_key_padding_mask

\* the last call was reorder_incremental_state on a session whose dict held
\* no buffer of this module
ReorderWithoutBuffer == WasReorder /\ last.entries = {}

\* C6 as stated: reorder on a session for which no buffer has been
\* established does not raise and leaves the session's dict as it was, so
\* that the buffer looked up afterwards is empty.
C6_ReorderIsNoOp ==
    ReorderWithoutBuffer =>
        /\ ~last.raised
        /\ store[last.handle[1]] = EmptyState
        /\ After = EmptyBuffer

\* C6, amended: reorder on a session for which no buffer has been
\* established does not raise, and the buffer looked up afterwards is empty
\* (no prev_key, prev_value or prev_key_padding_mask); but the session's
\* dict is not as it was: it has gained the entry of this module, holding
\* that empty buffer.
C6_ReorderOnEmptyCache ==
    ReorderWithoutBuffer =>
        /\ ~last.raised
        /\ After = EmptyBuffer
        /\ After.keys = {}
        /\ store[last.handle[1]] = [entries |-> {"attn_state"}, attn_state |-> EmptyBuffer]
        /\ store[last.handle[1]].entries # last.entries

C6_Witness ==
    /\ ReorderWithoutBuffer /\ ~last.raised
    /\ Len(last.new_order) = 2 /\ After = EmptyBuffer
    /\ store[last.handle[1]].entries = {"attn_state"}
\* ------------------------------------------------- two decoding sessions
\* Two sessions on one module, each with its own incremental_state dict; the
\* steps of one session are serialized, those of the two interleave freely.
\* Session h decodes with batch size h; its tokens carry stamps of its own.
TwoArgs(c, h, step) ==
    { Args(Input("query", MaxSteps * (h - 1) + step, 1, h), TRUE,
           IF c.self_attention THEN None ELSE Input("key", MaxSteps * (h - 1) + step, 1, h),
           IF c.self_attention THEN None ELSE Input("value", MaxSteps * (h - 1) + step, 1, h),
           IF hm THEN PaddingMask(h, 1) ELSE None,
           None, st, FALSE, FALSE, FALSE) : hm \in BOOLEAN, st \in BOOLEAN }

StepTwo(h) ==
    /\ calls[h].forward < MaxSteps - 1
    /\ SessionBsz(store, h) \in {0, h}
    /\ \E a \in TwoArgs(cfg, h, calls[h].forward + 1) : Forward(h, a, TRUE)

ReorderTwo(h) == Reorder(h, TRUE)

NextTwo == \E h \in Handles : StepTwo(h) \/ ReorderTwo(h)

SpecTwo == Init /\ [][NextTwo]_vars

\* C8: under every interleaving of the forward() and reorder calls of two
\* sessions with distinct incremental_state dicts, the dict of each session
\* is the one it holds when its calls run alone, and the run of a session
\* alone never touches the dict of the other.
C8_SessionsIndependent ==
    \A h \in Handles :
        /\ store[h] = solo[h][h]
        /\ \A g \in Handles \ {h} : solo[h][g] = EmptyState

C8_Witness ==
    /\ calls[1].forward >= 1 /\ calls[2].forward >= 1
    /\ last.op = "forward" /\ last.handle = <<1>>
    /\ "prev_key" \in get_input_buffer(store, <<1>>).keys
    /\ "prev_key" \in get_input_buffer(store, <<2>>).keys
    /\ get_input_buffer(store, <<1>>) # get_input_buffer(store, <<2>>)
    /\ store[2] = solo[2][2]
\* ------------------------------------- incremental run against full run
\* A self-attention module decodes a sequence of fin.len positions one
\* position a step with an incremental state, and computes the whole
\* sequence in one call without one.  Both runs see the same tokens; the
\* padding mask of a step is the column of its position.
Causal(len) == [t \in 1..len |-> [j \in 1..len |-> IF j > t THEN 1 ELSE 0]]

Column(m, i) == [dtype |-> m.dtype, rows |-> [b \in 1..Size0(m) |-> <<m.rows[b][i]>>]]

Sequence(len, bsz) == Input("query", 0, len, bsz)

Summary(f) == [raised |-> f.raised, q |-> f.q, attends |-> f.attends]

SelfAttentionConfigs ==
    { c \in Configs : c.self_attention /\ ~c.encoder_decoder_attention }

InitEquiv ==
    /\ cfg \in SelfAttentionConfigs
    /\ fin \in [len : 1..MaxSteps, bsz : 1..MaxB, causal : BOOLEAN, padded : BOOLEAN]
    /\ fout = [steps |-> << >>, full |-> None]
    /\ store = [h \in Handles |-> EmptyState]
    /\ solo = None
    /\ calls = [h \in Handles |-> [forward |-> 0, reorder |-> 0]]
    /\ last = Idle

\* step i of the incremental run: forward(query=position i, incremental_state)
IncrementalStep ==
    /\ calls[1].forward < fin.len
    /\ LET i == calls[1].forward + 1
           a == Args(<<Sequence(fin.len, fin.bsz)[i]>>, TRUE, None, None,
                     IF fin.padded THEN Column(PaddingMask(fin.bsz, fin.len), i) ELSE None,
                     None, FALSE, FALSE, FALSE, FALSE)
           f == forward(cfg, store, <<1>>, a)
       IN /\ store' = f.heap
          /\ fout' = [fout EXCEPT !.steps = Append(@, Summary(f))]
          /\ last' = [op |-> "forward", handle |-> <<1>>, args |-> a, f |-> f,
                      before |-> get_input_buffer(store, <<1>>)]
    /\ calls' = [calls EXCEPT ![1].forward = @ + 1]
    /\ UNCHANGED <<cfg, solo, fin>>

\* the full run: forward(query=key=value=the sequence), no incremental state
FullRun ==
    /\ fout.full = None
    /\ LET x == Sequence(fin.len, fin.bsz)
           a == Args(x, TRUE, x, x,
                     IF fin.padded THEN PaddingMask(fin.bsz, fin.len) ELSE None,
                     IF fin.causal THEN Causal(fin.len) ELSE None,
                     FALSE, FALSE, FALSE, FALSE)
           f == forward(cfg, store, None, a)
       IN /\ fout' = [fout EXCEPT !.full = <<Summary(f)>>]
          /\ last' = [op |-> "forward", handle |-> None, args |-> a, f |-> f,
                      before |-> EmptyBuffer]
    /\ UNCHANGED <<cfg, store, solo, calls, fin>>

NextEquiv == IncrementalStep \/ FullRun

SpecEquiv == InitEquiv /\ [][NextEquiv]_vars

\* step i of the incremental run and position i of the full run return, and
\* in every row they have the same query and the same keys and values
\* taking part in the softmax
SameOutput(i) ==
    LET s == fout.steps[i]
        u == fout.full[1]
    IN /\ s.raised = "" /\ u.raised = ""
       /\ \A r \in 1..(fin.bsz * num_heads) :
            /\ s.q[r][1] = u.q[r][i]
            /\ s.attends[r][1] = u.attends[r][i]

BothRan == fout.full # None /\ Len(fout.steps) >= 1

\* C2 as stated: whatever attn_mask the full run is given (none included),
\* every step of the incremental run attends to the source positions that
\* its position attends to in the full run.
C2_IncrementalEqualsFull ==
    BothRan => \A i \in 1..Len(fout.steps) : SameOutput(i)

\* C2 amended: when the full run is given the causal attn_mask (position t
\* excluded from every later source position) and the module has no bias
\* tokens, every step i of the incremental run returns and attends to the
\* source positions that position i attends to in the full run; with bias
\* tokens the first incremental step fails the key-length assertion of line
\* 356 and the cache keeps one bias token a step.
C2_IncrementalEqualsCausalFull ==
    /\ (BothRan /\ fin.causal /\ ~cfg.add_bias_kv) =>
           \A i \in 1..Len(fout.steps) : SameOutput(i)
    /\ (cfg.add_bias_kv /\ Len(fout.steps) >= 1) =>
           /\ fout.steps[1].raised = "356"
           /\ Len(get_input_buffer(store, <<1>>).prev_key[1]) = 2 * Len(fout.steps)

C2_Witness ==
    /\ BothRan /\ fin.causal /\ ~cfg.add_bias_kv /\ cfg.add_zero_attn /\ fin.padded
    /\ fin.len = MaxSteps /\ Len(fout.steps) = fin.len /\ fin.bsz = MaxB
    /\ SameOutput(fin.len)
    /\ Len(fout.steps[fin.len].attends[1][1]) >= 2
    /\ Len(fout.full[1].attends[1][1]) < Len(fout.full[1].attends[1][fin.len])
\* ------------------------------------------- incremental calls only: C11
\* One session makes forward() calls with an incremental state; every call
\* chooses static_kv freely and passes no key_padding_mask or one as long as
\* its key (its query when it passes no key).
NextSteps == Step(1)

SpecSteps == Init /\ [][NextSteps]_vars

\* the lengths of the cached tensors agree
LengthsAgree(buffer) ==
    "prev_key" \in buffer.keys =>
        /\ Len(buffer.prev_value[1]) = Len(buffer.prev_key[1])
        /\ buffer.prev_key_padding_mask # None =>
             Size1(buffer.prev_key_padding_mask) = Len(buffer.prev_key[1])

\* C11 as stated: after any sequence of such calls the cached padding mask,
\* when there is one, is as long as the cached keys, which are as long as
\* the cached values.
C11_MaskLengthIsKeyLength == LengthsAgree(get_input_buffer(store, <<1>>))

\* C11 amended: when every call passes a value of the shape of its key, the
\* cached values are always as long as the cached keys; a
\* call on a cache whose lengths agree leaves a cache whose lengths agree
\* unless it fails the padding-mask length assertion of line 365, which
\* happens in encoder-decoder mode when a static_kv call passes a mask longer
\* than the cached keys: that mask is in the cache when the call fails.
C11_LengthsAgreeUnlessLine365 ==
    LET buffer == get_input_buffer(store, <<1>>)
    IN /\ "prev_key" \in buffer.keys =>
            Len(buffer.prev_value[1]) = Len(buffer.prev_key[1])
       /\ (WasForward /\ LengthsAgree(last.before)) =>
            /\ last.f.raised # "365" => LengthsAgree(buffer)
            /\ (last.f.raised = "365" /\ last.f.wrote) =>
                 /\ EncoderDecoderMode /\ StaticReuse
                 /\ Size1(buffer.prev_key_padding_mask) > Len(buffer.prev_key[1])
                 /\ buffer.prev_key = last.before.prev_key

C11_Witness ==
    /\ WasForward /\ calls[1].forward = MaxSteps /\ last.f.raised = ""
    /\ ~last.args.static_kv /\ last.args.key_padding_mask # None
    /\ last.before.prev_key_padding_mask # None
    /\ Len(After.prev_key[1]) >= 3
    /\ Size1(After.prev_key_padding_mask) = Len(After.prev_key[1])

\* ---------------------------------------------------- weight reporting
\* The arguments of a call that may ask for the attention weights: a query
\* of 1..MaxLen positions, a key and value of 1..MaxLen positions (the
\* length of the query on a self-attention module), no mask, every
\* combination of need_weights, need_head_weights and before_softmax.
WeightArgs(c, stamp, bsz) ==
    { Args(Input("query", stamp, tl, b), TRUE,
           Input("key", stamp, kl, b), Input("value", stamp, kl, b),
           None, None, FALSE, nw, nh, bs) :
        <<b, tl, kl, nw, nh, bs>> \in
          { x \in (1..MaxB) \X (1..MaxLen) \X (1..MaxLen) \X BOOLEAN \X BOOLEAN \X BOOLEAN :
              /\ bsz # 0 => x[1] = bsz
              /\ c.self_attention => x[3] = x[2] } }

\* a decoding step of session h that may ask for the weights
WeightStep(h) ==
    /\ calls[h].forward < MaxSteps - 1
    /\ \E a \in WeightArgs(cfg, calls[h].forward + 1, SessionBsz(store, h)) :
         Forward(h, a, FALSE)

\* a call without incremental_state that may ask for the weights
WeightStateless ==
    /\ calls[1] = [forward |-> 0, reorder |-> 0]
    /\ \E a \in WeightArgs(cfg, 0, 0) :
         last' = [op |-> "forward", handle |-> None, args |-> a,
                  f |-> forward(cfg, store, None, a), before |-> EmptyBuffer]
    /\ UNCHANGED <<cfg, store, solo, calls, fin, fout>>

NextWeights == WeightStep(1) \/ WeightStateless

SpecWeights == Init /\ [][NextWeights]_vars

\* the call returned and its second result is the attention weights
WeightsReported ==
    /\ WasForward /\ last.f.raised = "" /\ last.f.returns.second = "attn_weights"

\* C12 as stated: a forward() that returns and reports weights returns them
\* with shape (B, heads, T, S) when need_head_weights is set, with shape
\* (B, T, S) when only need_weights is set, and returns None for them when
\* neither is set.
C12_WeightsShape ==
    WeightsReported =>
        last.f.returns.attn_weights =
           (IF last.args.need_head_weights
            THEN <<last.f.bsz, num_heads, last.f.tgt_len, last.f.src_len>>
            ELSE IF last.args.need_weights
            THEN <<last.f.bsz, last.f.tgt_len, last.f.src_len>>
            ELSE None)


\* ------------------------------------------------- C13: aborted calls
\* the last call was a forward() on a session and raised
Aborted == WasForward /\ last.handle # None /\ last.f.raised # ""

\* the failures of lines 169-341: they come before the write of lines 349-354
BeforeWrite ==
    {"169", "174", "175", "219", "232", "239", "247", "248", "282", "284",
     "321", "325", "331", "335", "340", "341"}

\* the failures of lines 355-452: they come after it
AfterWrite == {"355", "356", "364", "365", "407", "428", "452"}

\* the value of the last call is projected from the tensor the key is
\* projected from, or has the shape of the key
ValueLikeKey ==
    \/ cfg.self_attention
    \/ cfg.encoder_decoder_attention
    \/ /\ last.args.key # None /\ last.args.value # None
       /\ Len(last.args.value) = Len(last.args.key)
       /\ Len(last.args.value[1]) = Len(last.args.key[1])

\* C13 as stated: a forward() on a session that raises leaves prev_key,
\* prev_value and prev_key_padding_mask of the session as they were.
C13_AbortLeavesCache == Aborted => After = last.before

\* C13, amended: a forward() on a session that raises before line 349 leaves
\* the cache as it was.  One that raises at a later assertion has written
\* its k, v and padding mask to the cache already: the cache holds all three
\* entries, and when the call was not static and the cache held keys before,
\* the cached keys and values hold more than they did: they are longer than
\* they were when the call had the batch size of the cache, and as long as
\* each other when they were before and the value has the shape of the key.
C13_AbortAfterWriteChangesCache ==
    Aborted =>
        /\ last.f.raised \in BeforeWrite \cup AfterWrite
        /\ last.f.raised \in BeforeWrite => (~last.f.wrote /\ After = last.before)
        /\ last.f.raised \in AfterWrite =>
             /\ last.f.wrote
             /\ After = last.f.saved_state
             /\ After.keys = {"prev_key", "prev_value", "prev_key_padding_mask"}
             /\ "prev_key" \notin last.before.keys => After # last.before
             /\ ("prev_key" \in last.before.keys /\ ~last.args.static_kv) =>
                  /\ Len(Flatten(After.prev_key)) > Len(Flatten(last.before.prev_key))
                  /\ Len(After.prev_key) = Len(last.before.prev_key) =>
                       Len(After.prev_key[1]) > Len(last.before.prev_key[1])
                  /\ Len(Flatten(After.prev_value)) > Len(Flatten(last.before.prev_value))
                  /\ Len(After.prev_value) = Len(last.before.prev_value) =>
                       Len(After.prev_value[1]) > Len(last.before.prev_value[1])
                  /\ (ValueLikeKey
                      /\ Len(last.before.prev_value[1]) = Len(last.before.prev_key[1])) =>
                       Len(After.prev_value[1]) = Len(After.prev_key[1])
                  /\ After # last.before

C13_Witness ==
    /\ Aborted /\ last.f.raised = "365" /\ ~cfg.add_bias_kv
    /\ "prev_key" \in last.before.keys /\ ~last.args.static_kv
    /\ After # last.before
    /\ Len(After.prev_key[1]) = Len(last.before.prev_key[1]) + Len(last.args.key)


\* ------------------------------------- C14: zero attention and the cache
\* A module with add_zero_attn and without bias tokens decodes with one
\* incremental state: step i passes a key and value of fin.lens[i]
\* positions (on a self-attention module the query, of that length, is
\* passed as key and value), static_kv off, and, when fin.padded, a padding
\* mask covering the key of the step.
ZeroAttnConfigs == { c \in Configs : c.add_zero_attn /\ ~c.add_bias_kv }

InitZero ==
    /\ cfg \in ZeroAttnConfigs
    /\ fin \in UNION { [bsz : 1..MaxB, padded : BOOLEAN, lens : [1..n -> 1..MaxLen]] :
                         n \in 1..MaxSteps }
    /\ fout = [steps |-> << >>]
    /\ store = [h \in Handles |-> EmptyState]
    /\ solo = None
    /\ calls = [h \in Handles |-> [forward |-> 0, reorder |-> 0]]
    /\ last = Idle

\* the arguments of step i
ZeroArgs(c, i) ==
    LET l == fin.lens[i]
        query == Input("query", i, IF c.self_attention THEN l ELSE 1, fin.bsz)
    IN Args(query, TRUE,
            IF c.self_attention THEN query ELSE Input("key", i, l, fin.bsz),
            IF c.self_attention THEN query ELSE Input("value", i, l, fin.bsz),
            IF fin.padded THEN PaddingMask(fin.bsz, l) ELSE None,
            None, FALSE, FALSE, FALSE, FALSE)

\* step i of the session: forward(..., incremental_state, static_kv=False)
ZeroStep ==
    /\ calls[1].forward < Len(fin.lens)
    /\ LET a == ZeroArgs(cfg, calls[1].forward + 1)
           f == forward(cfg, store, <<1>>, a)
       IN /\ store' = f.heap
          /\ fout' = [fout EXCEPT !.steps =
                        Append(@, [raised |-> f.raised, scores |-> f.attn_weights_size,
                                   k |-> f.k, v |-> f.v])]
          /\ last' = [op |-> "forward", handle |-> <<1>>, args |-> a, f |-> f,
                      before |-> get_input_buffer(store, <<1>>)]
    /\ calls' = [calls EXCEPT ![1].forward = @ + 1]
    /\ UNCHANGED <<cfg, solo, fin>>

NextZero == ZeroStep

SpecZero == InitZero /\ [][NextZero]_vars

\* l_1 + ... + l_n
RECURSIVE SumLens(_)
SumLens(n) == IF n = 0 THEN 0 ELSE SumLens(n - 1) + fin.lens[n]

\* the keys and the values of step i as the module projects them: from the
\* query on a self-attention module, both from the key in encoder-decoder
\* mode, from key and value otherwise
StepKey(i) ==
    LET a == ZeroArgs(cfg, i)
    IN HeadSplit(Proj("k", IF cfg.self_attention THEN a.query ELSE a.key), fin.bsz)

StepValue(i) ==
    LET a == ZeroArgs(cfg, i)
    IN HeadSplit(Proj("v", IF cfg.self_attention THEN a.query
                           ELSE IF cfg.encoder_decoder_attention THEN a.key
                           ELSE a.value), fin.bsz)

\* the in-order concatenation of what steps 1..n contribute
RECURSIVE ConcatSteps(_, _)
ConcatSteps(n, which) ==
    LET t == IF which = "k" THEN StepKey(n) ELSE StepValue(n)
    IN IF n = 1 THEN t ELSE CatSeq(ConcatSteps(n - 1, which), t)

IsZeroCell(x) == x[1] = "zero"

\* C14: with add_zero_attn and no bias tokens, after n non-static
\* incremental steps with keys of lengths l_1..l_n every step has returned,
\* the cached prev_key and prev_value have length l_1 + ... + l_n and are the
\* in-order concatenation of the keys and values of the steps, no all-zero
\* position is in the cache, and the scores of step i have source length
\* l_1 + ... + l_i + 1, the last source position being the all-zero one.
C14_ZeroPositionNeverCached ==
    LET n == calls[1].forward
        buffer == get_input_buffer(store, <<1>>)
    IN n >= 1 =>
         /\ Len(fout.steps) = n
         /\ \A i \in 1..n :
              LET s == fout.steps[i]
              IN /\ s.raised = ""
                 /\ s.scores = <<fin.bsz * num_heads, Len(ZeroArgs(cfg, i).query),
                                 SumLens(i) + 1>>
                 /\ s.k = CatZero(ConcatSteps(i, "k"))
                 /\ s.v = CatZero(ConcatSteps(i, "v"))
         /\ buffer.prev_key = ConcatSteps(n, "k")
         /\ buffer.prev_value = ConcatSteps(n, "v")
         /\ \A r \in 1..(fin.bsz * num_heads) :
              /\ Len(buffer.prev_key[r]) = SumLens(n)
              /\ Len(buffer.prev_value[r]) = SumLens(n)
              /\ \A j \in 1..SumLens(n) :
                   ~IsZeroCell(buffer.prev_key[r][j]) /\ ~IsZeroCell(buffer.prev_value[r][j])

C14_Witness ==
    /\ calls[1].forward = MaxSteps /\ WasForward /\ last.f.raised = ""
    /\ \E i \in 1..MaxSteps : fin.lens[i] > 1
    /\ Len(get_input_buffer(store, <<1>>).prev_key[1]) = SumLens(MaxSteps)
    /\ Len(last.f.k[1]) = SumLens(MaxSteps) + 1
    /\ IsZeroCell(last.f.k[1][SumLens(MaxSteps) + 1])

====
